---- MODULE Spec2Model ----
(***************************************************************************)
(* Model of src/app.py, the South African NDA generator.                   *)
(*                                                                         *)
(* The program is a Streamlit script: loading the module runs the imports  *)
(* (lines 1-31) and main() (lines 119-311).  Every widget interaction      *)
(* re-runs main(); the "Generate NDA Contract" button makes one run        *)
(* validate the form, build contract_data and dispatch to one renderer.    *)
(*                                                                         *)
(* Conventions of the model                                                *)
(*   - Python None is the string NoneValue (no form input equals it) and,  *)
(*     for dates, the tuple NoDate; both are falsy / never formatted.      *)
(*   - the selectbox option "Indefinite" is the integer sentinel           *)
(*     Indefinite, so that duration_years keeps one type.                  *)
(*   - a renderer's output is the sequence of its lines / paragraphs /     *)
(*     flowables, each an item [style, text]; text "" is a blank line, an  *)
(*     empty paragraph, a Spacer or a page break.  Inline tags (<b>),      *)
(*     &nbsp; and leading indentation are carried by the style, runs of    *)
(*     white space inside a paragraph are a single space.                  *)
(***************************************************************************)
EXTENDS Integers, Sequences, FiniteSets, TLC

VARIABLES
    pc,                  \* "start", "ready" or "crashed"
    reportlab_installed, \* environment: the reportlab import succeeds
    docx_installed,      \* environment: the python-docx import succeeds
    PDF_AVAILABLE,       \* module flag, lines 19/21
    DOCX_AVAILABLE,      \* module flag, lines 29/31
    form,                \* the values the widgets of main() return
    export_format,       \* value of the "Download Format:" selectbox
    warnings,            \* st.warning texts of the last run
    export_formats,      \* option list built at lines 144-148
    messages,            \* st.success / st.error calls of the last run, in order
    contract_data,       \* <<the record of lines 248-270>>, or <<>> when none was built
    invoked,             \* renderers called in the last run, in order
    output,              \* what the called renderer returned
    download,            \* label of the st.download_button shown
    button,              \* what st.button returned in the last run
    render_date,         \* the datetime.now() the called renderer read
    previous_date,       \* history: render_date of the run before the last one
    exception,           \* uncaught exception that ended the script, or ""
    amount,              \* argument of amount_in_words
    words                \* its result

vars == <<pc, reportlab_installed, docx_installed, PDF_AVAILABLE, DOCX_AVAILABLE,
          form, export_format, warnings, export_formats, messages,
          contract_data, invoked, output, download, button, render_date, previous_date,
          exception, amount, words>>

(***************************************************************************)
(* Bounds                                                                  *)
(***************************************************************************)
MaxCategories == 2

MaxAmountSteps == 300

(***************************************************************************)
(* Values                                                                  *)
(***************************************************************************)
NoneValue == "<None>"

NoDate == <<0, 0, 0>>

Indefinite == 0

Truthy(s) == s # "" /\ s # NoneValue

TextFormat == "Text (.txt)"

PdfFormat == "PDF (.pdf)"

WordFormat == "Word (.docx)"

EmployeeNDA == "Employee NDA"

ContractorNDA == "Contractor NDA"

MutualNDA == "Mutual NDA"

ContractTypes == {EmployeeNDA, ContractorNDA, MutualNDA}

Range(s) == {s[i] : i \in 1..Len(s)}

Min(a, b) == IF a < b THEN a ELSE b

(***************************************************************************)
(* Form inputs.  A local of main() that the taken path does not assign     *)
(* (lines 168-185, 217-226, 231-232, 239-243) is unbound in that run: the  *)
(* form holds a placeholder for it and Collected says which are bound.     *)
(***************************************************************************)
CategoryCatalogue ==
    << "Technical information and trade secrets",
       "Business strategies and plans",
       "Customer lists and client information",
       "Financial information and pricing",
       "Software source code and algorithms",
       "Marketing strategies and campaigns",
       "Supplier and vendor information",
       "Research and development data",
       "Personnel information (subject to POPIA)",
       "Manufacturing processes and methods" >>

Categories == {CategoryCatalogue[i] : i \in 1..Min(MaxCategories, Len(CategoryCatalogue))}

\* what st.multiselect can return: the chosen options in the order chosen
Selections ==
    {s \in UNION {[1..n -> Categories] : n \in 0..Cardinality(Categories)} :
        \A i, j \in 1..Len(s) : i # j => s[i] # s[j]}

DefaultSelection == <<CategoryCatalogue[1], CategoryCatalogue[2]>>

DurationOptions == <<1, 2, 3, 5, 10, Indefinite>>

Durations == {1, 2, Indefinite}

GeographicScopes == {"South Africa only", "Global"}

DamagesAmounts == {50000, 55000}

DataTypeSelections == {<<>>, <<"Employee personal data">>}

Dates == {<<5, 3, 2024>>, <<15, 11, 2026>>}

EmploymentDates == {<<1, 2, 2024>>}

CompanyParts ==
    [company_name : {"", "ABC (Pty) Ltd"},
     company_reg : {"", "2023/123456/07"},
     company_address : {"", "123 Main Street, Johannesburg, 2001"},
     company_rep : {"John Smith"},
     company_position : {"Managing Director"}]

FilledCompanyParts ==
    {c \in CompanyParts : c.company_name # "" /\ c.company_reg # "" /\ c.company_address # ""}

\* lines 168-185: the receiving party's widgets, by path
MutualCompanyParts ==
    [contract_type : {MutualNDA}, other_party_type : {"Company"},
     other_name : {"", "XYZ (Pty) Ltd"}, other_reg : {"2023/654321/07"},
     other_id : {""}, other_address : {"456 Business Ave, Cape Town, 8001"},
     job_title : {""}, employment_date : {NoDate}]

MutualIndividualParts ==
    [contract_type : {MutualNDA}, other_party_type : {"Individual"},
     other_name : {"", "Jane Doe"}, other_reg : {""},
     other_id : {"", "8501015800083"}, other_address : {"789 Residential St, Durban, 4001"},
     job_title : {""}, employment_date : {NoDate}]

ContractorParts ==
    [contract_type : {ContractorNDA}, other_party_type : {""},
     other_name : {"", "Jane Doe"}, other_reg : {""},
     other_id : {"", "8501015800083"}, other_address : {"789 Residential St, Durban, 4001"},
     job_title : {""}, employment_date : {NoDate}]

\* line 183: a text input that validate_inputs does not look at
JobTitles == {"", "Software Developer"}

EmployeeParts ==
    [contract_type : {EmployeeNDA}, other_party_type : {""},
     other_name : {"", "Jane Doe"}, other_reg : {""},
     other_id : {"", "8501015800083"}, other_address : {"789 Residential St, Durban, 4001"},
     job_title : JobTitles, employment_date : EmploymentDates]

PartyParts == MutualCompanyParts \cup MutualIndividualParts \cup ContractorParts \cup EmployeeParts

\* lines 217-226: asked only when the contract is not mutual
ScopeParts(contract_type) ==
    IF contract_type # MutualNDA
    THEN [geographic_scope : GeographicScopes, post_employment : BOOLEAN]
    ELSE [geographic_scope : {""}, post_employment : {FALSE}]

DefaultScope(contract_type) ==
    IF contract_type # MutualNDA
    THEN [geographic_scope |-> "South Africa only", post_employment |-> TRUE]
    ELSE [geographic_scope |-> "", post_employment |-> FALSE]

\* lines 191-215
ClauseParts ==
    [confidential_info : Selections, additional_info : {"", "Prototype designs"},
     duration_years : Durations]

DefaultClauses ==
    [confidential_info |-> DefaultSelection, additional_info |-> "", duration_years |-> 1]

\* lines 230-243
RemedyParts ==
    [liquidated_damages : {FALSE}, damages_amount : {0},
     interdict_relief : BOOLEAN,
     involves_personal_data : {FALSE}, data_types : {<<>>}]
    \cup
    [liquidated_damages : {TRUE}, damages_amount : DamagesAmounts,
     interdict_relief : BOOLEAN,
     involves_personal_data : {FALSE}, data_types : {<<>>}]
    \cup
    [liquidated_damages : {FALSE}, damages_amount : {0},
     interdict_relief : BOOLEAN,
     involves_personal_data : {TRUE}, data_types : DataTypeSelections]
    \cup
    [liquidated_damages : {TRUE}, damages_amount : DamagesAmounts,
     interdict_relief : BOOLEAN,
     involves_personal_data : {TRUE}, data_types : DataTypeSelections]

DefaultRemedies ==
    [liquidated_damages |-> FALSE, damages_amount |-> 0, interdict_relief |-> TRUE,
     involves_personal_data |-> FALSE, data_types |-> <<>>]

\* the forms a session is checked with: every subset of empty required
\* fields on every path; with the company filled in, every choice of the
\* clause widgets and every choice of the scope, remedy and POPIA widgets
Forms ==
    {c @@ p @@ DefaultScope(p.contract_type) @@ DefaultClauses @@ DefaultRemedies :
        c \in CompanyParts, p \in PartyParts}
    \cup
    UNION {{c @@ p @@ DefaultScope(p.contract_type) @@ k @@ DefaultRemedies :
              c \in FilledCompanyParts, k \in ClauseParts} : p \in PartyParts}
    \cup
    UNION {{c @@ p @@ s @@ DefaultClauses @@ r :
              c \in FilledCompanyParts, s \in ScopeParts(p.contract_type), r \in RemedyParts} :
           p \in PartyParts}

\* the form as first shown: nothing typed, every choice at its default
DefaultForm ==
    [company_name |-> "", company_reg |-> "", company_address |-> "",
     company_rep |-> "John Smith", company_position |-> "Managing Director"]
    @@ (CHOOSE p \in EmployeeParts : p.other_name = "" /\ p.other_id = "")
    @@ DefaultScope(EmployeeNDA) @@ DefaultClauses @@ DefaultRemedies

\* the locals of main() that are bound once the form has been laid out
Collected(f) ==
    {"contract_type", "company_name", "company_reg", "company_address", "company_rep",
     "company_position", "other_name", "other_address", "confidential_info",
     "additional_info", "duration_years", "liquidated_damages", "interdict_relief",
     "involves_personal_data"}
    \cup (IF f.contract_type = MutualNDA THEN {"other_party_type"} ELSE {})
    \cup (IF f.contract_type = MutualNDA /\ f.other_party_type = "Company"
          THEN {"other_reg"} ELSE {"other_id"})
    \cup (IF f.contract_type = EmployeeNDA THEN {"job_title", "employment_date"} ELSE {})
    \cup (IF f.contract_type # MutualNDA THEN {"geographic_scope", "post_employment"} ELSE {})
    \cup (IF f.liquidated_damages THEN {"damages_amount"} ELSE {})
    \cup (IF f.involves_personal_data THEN {"data_types"} ELSE {})

(***************************************************************************)
(* String helpers                                                          *)
(***************************************************************************)
\* str.upper() on the names of the model
UpperCase(s) ==
    CASE s = "ABC (Pty) Ltd" -> "ABC (PTY) LTD"
      [] s = "XYZ (Pty) Ltd" -> "XYZ (PTY) LTD"
      [] s = "Jane Doe" -> "JANE DOE"
      [] OTHER -> s

MonthNames ==
    << "January", "February", "March", "April", "May", "June", "July",
       "August", "September", "October", "November", "December" >>

\* strftime("%d %B %Y") of the date <<day, month, year>>
Strftime(d) ==
    (IF d[1] < 10 THEN "0" ELSE "") \o ToString(d[1]) \o " " \o MonthNames[d[2]]
        \o " " \o ToString(d[3])

RECURSIVE Join(_)
Join(parts) == IF parts = <<>> THEN "" ELSE Head(parts) \o Join(Tail(parts))

\* one line, paragraph or flowable: the pieces its text is put together from
Item(style, parts) == [style |-> style, parts |-> parts]

Blank(style) == Item(style, <<>>)

ItemText(item) == Join(item.parts)

\* the text content of an output: the non-empty texts, markup dropped
Content(out) ==
    LET texts == [i \in 1..Len(out) |-> ItemText(out[i])]
        NonEmpty(t) == t # ""
    IN  SelectSeq(texts, NonEmpty)

Contains(out, fragment) ==
    \E i \in 1..Len(out) : \E j \in 1..Len(out[i].parts) : out[i].parts[j] = fragment

(***************************************************************************)
(* Template text shared word for word by the three renderers               *)
(***************************************************************************)
TitleText == "NON-DISCLOSURE AGREEMENT"

SubtitleText == "(Compliant with South African Law)"

MadeOnText == "THIS AGREEMENT is made on "

BetweenText == "BETWEEN:"

PartiesNoteText == "(The Company and the Recipient may be referred to individually as a \"Party\" and collectively as the \"Parties\")"

RecitalsHeading == "RECITALS"

RecitalOne == "WHEREAS, the Company possesses certain confidential and proprietary information, trade secrets, and intellectual property that constitute valuable business assets;"

RecitalThree == "WHEREAS, the Parties wish to protect the confidentiality of such information in accordance with the laws of the Republic of South Africa, including but not limited to the Constitution of South Africa (1996), Labour Relations Act 66 of 1995, Basic Conditions of Employment Act 75 of 1997, Protection of Personal Information Act 4 of 2013, Competition Act 89 of 1998, and Protected Disclosures Act 26 of 2000;"

NowThereforeText == "NOW THEREFORE, the Parties agree as follows:"

SectionOneHeading == "1. DEFINITION OF CONFIDENTIAL INFORMATION"

ClauseOneOne == "1.1 \"Confidential Information\" shall mean all non-public, proprietary, or confidential information disclosed by the Company to the Recipient, whether orally, in writing, electronically, or by observation, including but not limited to:"

ClauseOneTwo == "1.2 Confidential Information shall not include information that:"

Exceptions ==
    << "Is or becomes publicly available through no breach of this Agreement by the Recipient;",
       "Was rightfully known by the Recipient before disclosure by the Company;",
       "Is rightfully received by the Recipient from a third party without breach of any confidentiality obligation;",
       "Is independently developed by the Recipient without use of or reference to the Confidential Information;",
       "Is required to be disclosed by law, regulation, or court order, provided that the Recipient gives the Company reasonable advance notice of such requirement." >>

ExceptionLetters == <<"a", "b", "c", "d", "e">>

SectionTwoHeading == "2. OBLIGATIONS OF THE RECIPIENT"

SectionThreeHeading == "3. CONSTITUTIONAL AND STATUTORY COMPLIANCE"

\* clause 2.1 of generate_nda_text
ClauseTwoOneText == "2.1 The Recipient acknowledges that the Confidential Information is proprietary to the Company and constitutes valuable trade secrets."

\* clause 2.1 of add_remaining_clauses_to_story / _to_docx
ClauseTwoOneDocument == "2.1 The Recipient shall not disclose, publish, or otherwise reveal any of the Confidential Information received from the Company to any other party whatsoever except with the specific prior written authorization of the Company."

ClauseThreeOne == "3.1 This Agreement complies with the Protection of Personal Information Act 4 of 2013 (POPIA) and other relevant South African legislation."

InWitnessText == "IN WITNESS WHEREOF, the Parties have executed this Agreement on the date first written above."

SignedAtText == "SIGNED AT _________________________ ON _________________________"

SignatureRule == "_________________________________"

DisclaimerLabel == "LEGAL DISCLAIMER:"

DisclaimerBody == "This NDA has been generated to comply with South African law as of 2024. However, legal requirements may change, and specific circumstances may require additional provisions. It is recommended to have this agreement reviewed by a qualified South African attorney before execution."

(***************************************************************************)
(* Pieces every renderer computes with the same expression                 *)
(***************************************************************************)
\* "(1) NAME (Registration Number: ...), a company ... ; and"
CompanyParagraph(cd) ==
    << "(1) ", UpperCase(cd.company_name),
       " (Registration Number: ", cd.company_reg,
       "), a company duly incorporated in accordance with the laws of the Republic of South Africa, with its registered address at ",
       cd.company_address,
       " (hereinafter referred to as \"the Company\" or \"Disclosing Party\"), represented herein by ",
       cd.company_rep, ", ", cd.company_position,
       ", who warrants that he/she has the necessary authority to bind the Company; and" >>

\* the fragment without its condition
IdFragmentAlways(cd) == <<", ID Number: " \o cd.other_id>>

\* f", ID Number: {other_id}" if other_id else ""
IdFragment(cd) ==
    IF Truthy(cd.other_id)
    THEN <<", ID Number: " \o cd.other_id>>
    ELSE <<>>

\* the employment detail written whenever a job title is present
EmploymentFragmentByTitle(cd) ==
    IF Truthy(cd.job_title)
    THEN <<", employed as " \o cd.job_title \o " from "
            \o Strftime(cd.employment_date)>>
    ELSE <<>>

\* f", employed as {job_title} from {employment_date:%d %B %Y}" for an employee
EmploymentFragment(cd) ==
    IF cd.contract_type = EmployeeNDA
    THEN <<", employed as " \o cd.job_title \o " from "
            \o Strftime(cd.employment_date)>>
    ELSE <<>>

\* the second recital with the engagement wording for every contract type
RecitalTwoEngagedOnly(cd) ==
    << "WHEREAS, the Recipient ", "will be engaged by",
       " the Company and will have access to such confidential information in the course of ",
       IF cd.contract_type = EmployeeNDA THEN "employment" ELSE "the engagement",
       ";" >>

\* the second recital
RecitalTwo(cd) ==
    << "WHEREAS, the Recipient ",
       IF cd.contract_type = EmployeeNDA THEN "is employed by" ELSE "will be engaged by",
       " the Company and will have access to such confidential information in the course of ",
       IF cd.contract_type = EmployeeNDA THEN "employment" ELSE "the engagement",
       ";" >>

\* the list numbered from zero, the additional item taking the number of
\* categories
ConfidentialListFromZero(cd, style) ==
    [i \in 1..Len(cd.confidential_info) |->
        Item(style, <<ToString(i - 1), ". ", cd.confidential_info[i], ";">>)]
    \o (IF cd.additional_info # ""
        THEN <<Item(style, <<ToString(Len(cd.confidential_info)), ". ",
                             cd.additional_info, ";">>)>>
        ELSE <<>>)

\* the numbered list of clause 1.1: enumerate(confidential_info, 1), then
\* the additional item numbered len(confidential_info) + 1
ConfidentialList(cd, style) ==
    [i \in 1..Len(cd.confidential_info) |->
        Item(style, <<ToString(i), ". ", cd.confidential_info[i], ";">>)]
    \o (IF cd.additional_info # ""
        THEN <<Item(style, <<ToString(Len(cd.confidential_info) + 1), ". ",
                             cd.additional_info, ";">>)>>
        ELSE <<>>)

ExceptionList(style) ==
    [i \in 1..Len(Exceptions) |-> Item(style, <<"(", ExceptionLetters[i], ") ", Exceptions[i]>>)]

(***************************************************************************)
(* generate_nda_text, lines 621-721                                        *)
(***************************************************************************)
\* lines 626-631: duration_text
DurationText(cd) ==
    IF cd.duration_years = Indefinite
    THEN "indefinitely"
    ELSE ToString(cd.duration_years) \o " years"

\* the context suffix selected by the contract type alone
DurationSuffixByTypeOnly(cd) ==
    IF cd.contract_type = EmployeeNDA
    THEN " from the termination of employment"
    ELSE IF cd.contract_type = ContractorNDA
    THEN " from the completion or termination of the contractual relationship"
    ELSE " from the date of this Agreement"

\* lines 633-638: the context suffix appended to duration_clause
DurationSuffix(cd) ==
    IF cd.post_employment /\ cd.contract_type = EmployeeNDA
    THEN " from the termination of employment"
    ELSE IF cd.contract_type = ContractorNDA
    THEN " from the completion or termination of the contractual relationship"
    ELSE " from the date of this Agreement"

\* lines 626-638: duration_clause
DurationClause(cd) ==
    (IF cd.duration_years = Indefinite
     THEN "This obligation shall survive indefinitely"
     ELSE "This obligation shall survive for a period of " \o ToString(cd.duration_years) \o " years")
    \o DurationSuffix(cd)

\* line 651: recipient_text
RecipientText(cd) ==
    <<"(2) ", UpperCase(cd.other_name)>> \o IdFragment(cd)
    \o <<", with address at ", cd.other_address,
         " (hereinafter referred to as \"the Recipient\" or \"Receiving Party\")">>
    \o EmploymentFragment(cd) \o <<".">>

\* lines 641-648 and 681: "\n".join(conf_info_list) put on its own line
ConfInfoText(cd) ==
    IF ConfidentialList(cd, "indent8") = <<>>
    THEN <<Blank("line")>>
    ELSE ConfidentialList(cd, "indent8")

\* line 712: the line is there in either case, empty without an ID
TextIdLine(cd) ==
    IF Truthy(cd.other_id)
    THEN Item("line", <<"ID Number: " \o cd.other_id>>)
    ELSE Blank("line")

TextWitness ==
    << Item("line", <<"WITNESS:">>), Item("line", <<SignatureRule>>),
       Item("line", <<"Full Name:">>), Item("line", <<"Date:">>), Blank("line") >>

generate_nda_text(cd, now) ==
    LET current_date == Strftime(now)
        duration_text == DurationText(cd)
        duration_clause == DurationClause(cd)
        L(t) == Item("line", <<t>>)
        B == Blank("line")
    IN  << B, L(TitleText), L(SubtitleText), B,
           Item("line", <<MadeOnText, current_date>>), B,
           L(BetweenText), B,
           Item("line", CompanyParagraph(cd)), B,
           Item("line", RecipientText(cd)), B,
           L(PartiesNoteText), B,
           L(RecitalsHeading), B,
           L(RecitalOne), B,
           Item("line", RecitalTwo(cd)), B,
           L(RecitalThree), B,
           L(NowThereforeText), B,
           L(SectionOneHeading), B,
           L(ClauseOneOne), B >>
        \o ConfInfoText(cd)
        \o << B, L(ClauseOneTwo) >>
        \o ExceptionList("indent4")
        \o << B, L(SectionTwoHeading), B,
              L(ClauseTwoOneText), B,
              L(InWitnessText), B,
              L(SignedAtText), B,
              L("THE COMPANY:"), L(SignatureRule),
              L(cd.company_rep), L(cd.company_position), L(cd.company_name), B >>
        \o TextWitness
        \o << L("THE RECIPIENT:"), L(SignatureRule), L(cd.other_name), TextIdLine(cd), B >>
        \o TextWitness
        \o << Item("line", <<DisclaimerLabel, " ", DisclaimerBody>>) >>

(***************************************************************************)
(* generate_nda_pdf, lines 316-429, with its helpers, lines 496-523,       *)
(* 554-562 and 574-619                                                     *)
(***************************************************************************)
\* lines 394-396: the employment fragment starts on a line of its own, so a
\* space separates it (or the full stop) from the closing bracket
PdfOtherPartyText(cd) ==
    <<"(2) ", UpperCase(cd.other_name)>> \o IdFragment(cd)
    \o <<", with address at ", cd.other_address,
         " (hereinafter referred to as \"the Recipient\" or \"Receiving Party\")", " ">>
    \o EmploymentFragment(cd) \o <<".">>

add_remaining_clauses_to_story ==
    << Item("h1", <<SectionTwoHeading>>),
       Item("h1", <<SectionThreeHeading>>),
       Item("body", <<ClauseTwoOneDocument>>),
       Item("body", <<ClauseThreeOne>>) >>

add_main_clauses_to_story(cd) ==
    << Item("h1", <<SectionOneHeading>>), Item("body", <<ClauseOneOne>>) >>
    \o ConfidentialList(cd, "body_nbsp4")
    \o << Item("body", <<ClauseOneTwo>>) >>
    \o ExceptionList("body_nbsp4")
    \o add_remaining_clauses_to_story

PdfWitness ==
    << Item("body", <<"WITNESS:">>), Blank("spacer"), Item("body", <<SignatureRule>>),
       Item("body", <<"Full Name:">>), Item("body", <<"Date:">>), Blank("spacer") >>

add_signature_section_to_story(cd) ==
    << Blank("spacer"), Item("body", <<InWitnessText>>), Blank("spacer"),
       Item("body", <<SignedAtText>>), Blank("spacer"),
       Item("body", <<"THE COMPANY:">>), Blank("spacer"), Item("body", <<SignatureRule>>),
       Item("body", <<cd.company_rep>>), Item("body", <<cd.company_position>>),
       Item("body", <<cd.company_name>>), Blank("spacer") >>
    \o PdfWitness
    \o << Item("body", <<"THE RECIPIENT:">>), Blank("spacer"), Item("body", <<SignatureRule>>),
          Item("body", <<cd.other_name>>) >>
    \o (IF Truthy(cd.other_id) THEN <<Item("body", <<"ID Number: " \o cd.other_id>>)>> ELSE <<>>)
    \o << Blank("spacer") >>
    \o PdfWitness
    \o << Item("h1", <<DisclaimerLabel>>), Item("body", <<DisclaimerBody>>) >>

generate_nda_pdf(cd, now) ==
    LET current_date == Strftime(now)
    IN  << Item("title", <<TitleText>>), Item("normal", <<SubtitleText>>), Blank("spacer"),
           Item("body", <<MadeOnText, current_date>>), Blank("spacer"),
           Item("h2", <<BetweenText>>),
           Item("body", CompanyParagraph(cd)), Blank("spacer"),
           Item("body", PdfOtherPartyText(cd)), Blank("spacer"),
           Item("body", <<PartiesNoteText>>), Blank("spacer"),
           Item("h1", <<RecitalsHeading>>),
           Item("body", <<RecitalOne>>), Blank("spacer"),
           Item("body", RecitalTwo(cd)), Blank("spacer"),
           Item("body", <<RecitalThree>>), Blank("spacer"),
           Item("body", <<NowThereforeText>>), Blank("spacer") >>
        \o add_main_clauses_to_story(cd)
        \o add_signature_section_to_story(cd)

(***************************************************************************)
(* generate_nda_docx, lines 431-494, with its helpers, lines 525-552,      *)
(* 564-572 and 33-79                                                       *)
(***************************************************************************)
add_remaining_clauses_to_docx ==
    << Item("Heading 1", <<SectionTwoHeading>>),
       Item("Heading 1", <<SectionThreeHeading>>),
       Item("paragraph", <<ClauseTwoOneDocument>>),
       Item("paragraph", <<ClauseThreeOne>>) >>

add_main_clauses_to_docx(cd) ==
    << Item("Heading 1", <<SectionOneHeading>>), Item("paragraph", <<ClauseOneOne>>) >>
    \o ConfidentialList(cd, "List Number")
    \o << Item("paragraph", <<ClauseOneTwo>>) >>
    \o ExceptionList("List Bullet")
    \o add_remaining_clauses_to_docx

DocxWitness ==
    << Item("paragraph", <<"WITNESS:">>), Blank("paragraph"),
       Item("paragraph", <<SignatureRule>>), Item("paragraph", <<"Full Name:">>),
       Item("paragraph", <<"Date:">>), Blank("paragraph") >>

add_signature_section_to_docx(cd) ==
    << Blank("paragraph"), Item("paragraph", <<InWitnessText>>), Blank("paragraph"),
       Item("paragraph", <<SignedAtText>>), Blank("paragraph"),
       Item("paragraph", <<"THE COMPANY:">>), Blank("paragraph"),
       Item("paragraph", <<SignatureRule>>),
       Item("paragraph", <<cd.company_rep>>), Item("paragraph", <<cd.company_position>>),
       Item("paragraph", <<cd.company_name>>), Blank("paragraph") >>
    \o DocxWitness
    \o << Item("paragraph", <<"THE RECIPIENT:">>), Blank("paragraph"),
          Item("paragraph", <<SignatureRule>>), Item("paragraph", <<cd.other_name>>) >>
    \o (IF Truthy(cd.other_id)
        THEN <<Item("paragraph", <<"ID Number: " \o cd.other_id>>)>>
        ELSE <<>>)
    \o << Blank("paragraph") >>
    \o DocxWitness
    \o << Blank("page_break"),
          Item("paragraph", <<DisclaimerLabel, " ", DisclaimerBody>>) >>

generate_nda_docx(cd, now) ==
    LET current_date == Strftime(now)
    IN  << Item("Title", <<TitleText>>), Item("paragraph", <<SubtitleText>>),
           Blank("paragraph"),
           Item("paragraph", <<MadeOnText, current_date>>), Blank("paragraph"),
           Item("Heading 2", <<BetweenText>>),
           Item("paragraph", CompanyParagraph(cd)),
           Item("paragraph", RecipientText(cd)),
           Item("paragraph", <<PartiesNoteText>>), Blank("paragraph"),
           Item("Heading 1", <<RecitalsHeading>>),
           Item("paragraph", <<RecitalOne>>),
           Item("paragraph", RecitalTwo(cd)),
           Item("paragraph", <<RecitalThree>>),
           Item("paragraph", <<NowThereforeText>>), Blank("paragraph") >>
        \o add_main_clauses_to_docx(cd)
        \o add_signature_section_to_docx(cd)

(***************************************************************************)
(* amount_in_words, lines 81-117                                           *)
(***************************************************************************)
\* the function without its branch for exact hundreds of thousands
amount_in_words_no_hundreds(a) ==
    IF a = 0 THEN "Zero"
    ELSE IF a < 1000 THEN ToString(a)
    ELSE IF a < 10000 THEN
        ToString(a \div 1000) \o " Thousand"
            \o (IF a % 1000 = 0 THEN "" ELSE " " \o ToString(a % 1000))
    ELSE IF a < 1000000 THEN ToString(a \div 1000) \o " Thousand"
    ELSE ToString(a \div 1000000) \o " Million"
            \o (IF a % 1000000 = 0 THEN ""
                ELSE IF a % 1000000 < 1000 THEN " " \o ToString(a % 1000000)
                ELSE " " \o ToString((a % 1000000) \div 1000) \o " Thousand")

\* the conversion with the hundred-thousand form for exact multiples of 100,000 only
amount_in_words_exact_hundreds(a) ==
    IF a = 0 THEN "Zero"
    ELSE IF a < 1000 THEN ToString(a)
    ELSE IF a < 10000 THEN
        ToString(a \div 1000) \o " Thousand"
            \o (IF a % 1000 = 0 THEN "" ELSE " " \o ToString(a % 1000))
    ELSE IF a < 100000 THEN ToString(a \div 1000) \o " Thousand"
    ELSE IF a < 1000000 THEN
        IF a % 100000 = 0
        THEN ToString(a \div 100000) \o " Hundred Thousand"
        ELSE ToString(a \div 1000) \o " Thousand"
    ELSE ToString(a \div 1000000) \o " Million"
            \o (IF a % 1000000 = 0 THEN ""
                ELSE IF a % 1000000 < 1000 THEN " " \o ToString(a % 1000000)
                ELSE " " \o ToString((a % 1000000) \div 1000) \o " Thousand")

\* the conversion that drops every remainder below one thousand
amount_in_words_no_remainder(a) ==
    IF a = 0 THEN "Zero"
    ELSE IF a < 1000 THEN ToString(a)
    ELSE IF a < 100000 THEN ToString(a \div 1000) \o " Thousand"
    ELSE IF a < 1000000 THEN
        IF (a \div 1000) % 100 = 0
        THEN ToString(a \div 100000) \o " Hundred Thousand"
        ELSE ToString(a \div 1000) \o " Thousand"
    ELSE ToString(a \div 1000000) \o " Million"
            \o (IF a % 1000000 < 1000 THEN ""
                ELSE " " \o ToString((a % 1000000) \div 1000) \o " Thousand")

amount_in_words(a) ==
    IF a = 0 THEN "Zero"
    ELSE IF a < 1000 THEN ToString(a)
    ELSE IF a < 10000 THEN
        LET thousands == a \div 1000
            remainder == a % 1000
        IN  IF remainder = 0
            THEN ToString(thousands) \o " Thousand"
            ELSE ToString(thousands) \o " Thousand " \o ToString(remainder)
    ELSE IF a < 100000 THEN ToString(a \div 1000) \o " Thousand"
    ELSE IF a < 1000000 THEN
        LET thousands == a \div 1000
        IN  IF thousands % 100 = 0
            THEN ToString(thousands \div 100) \o " Hundred Thousand"
            ELSE ToString(thousands) \o " Thousand"
    ELSE
        LET millions == a \div 1000000
            remainder == a % 1000000
        IN  IF remainder = 0 THEN ToString(millions) \o " Million"
            ELSE IF remainder < 1000
            THEN ToString(millions) \o " Million " \o ToString(remainder)
            ELSE LET thousands == remainder \div 1000
                 IN  IF thousands = 0
                     THEN ToString(millions) \o " Million"
                     ELSE ToString(millions) \o " Million " \o ToString(thousands) \o " Thousand"

(***************************************************************************)
(* main, lines 119-311                                                     *)
(***************************************************************************)
PdfWarning == "PDF export not available. Install reportlab: pip install reportlab"

DocxWarning == "Word export not available. Install python-docx: pip install python-docx"

\* lines 130-133
Warnings(pdf_available, docx_available) ==
    (IF ~pdf_available THEN {PdfWarning} ELSE {})
    \cup (IF ~docx_available THEN {DocxWarning} ELSE {})

\* lines 144-148
ExportFormats(pdf_available, docx_available) ==
    <<TextFormat>>
    \o (IF pdf_available THEN <<PdfFormat>> ELSE <<>>)
    \o (IF docx_available THEN <<WordFormat>> ELSE <<>>)

\* any([...]) in place of all([...])
validate_inputs_any(company_name, company_reg, company_address, other_name) ==
    company_name # "" \/ company_reg # "" \/ company_address # "" \/ other_name # ""

\* the check without the counterparty's name
validate_inputs_company_only(company_name, company_reg, company_address, other_name) ==
    company_name # "" /\ company_reg # "" /\ company_address # ""

\* lines 313-314: all([...]) of four strings
validate_inputs(company_name, company_reg, company_address, other_name) ==
    company_name # "" /\ company_reg # "" /\ company_address # "" /\ other_name # ""

SuccessMessage == [kind |-> "success", text |-> "NDA Contract Generated Successfully!"]

PdfSuccessMessage ==
    [kind |-> "success", text |-> "PDF generated successfully! Use the download button below."]

DocxSuccessMessage ==
    [kind |-> "success",
     text |-> "Word document generated successfully! Use the download button below."]

\* line 311
ValidationErrorMessage ==
    [kind |-> "error", text |-> "Please fill in all required fields marked with *"]

\* the required fields the message of line 311 names: it names none
FieldsNamedBy(message) == {}

\* other_id read on every path
UsesOtherIdAlways(f) == TRUE

\* line 256: when other_id is read
UsesOtherId(f) ==
    f.contract_type # MutualNDA
    \/ (f.contract_type = MutualNDA /\ f.other_party_type = "Individual")

\* line 261: when geographic_scope is read
UsesGeographicScope(f) == f.contract_type # MutualNDA

\* line 263: when damages_amount is read
UsesDamagesAmount(f) == f.liquidated_damages

\* the locals that evaluating the dict display of lines 248-270 reads
BuildReads(f) ==
    {"contract_type", "company_name", "company_reg", "company_address", "company_rep",
     "company_position", "other_name", "other_address", "confidential_info",
     "additional_info", "duration_years", "liquidated_damages", "interdict_relief",
     "involves_personal_data"}
    \cup (IF f.contract_type = MutualNDA THEN {"other_party_type"} ELSE {})
    \cup (IF UsesOtherId(f) THEN {"other_id"} ELSE {})
    \cup (IF UsesGeographicScope(f) THEN {"geographic_scope"} ELSE {})
    \cup (IF UsesDamagesAmount(f) THEN {"damages_amount"} ELSE {})
    \cup (IF f.involves_personal_data THEN {"data_types"} ELSE {})
    \cup (IF f.contract_type = EmployeeNDA THEN {"job_title", "employment_date"} ELSE {})
    \cup (IF f.contract_type # MutualNDA THEN {"post_employment"} ELSE {})

\* lines 248-270
ContractData(f) ==
    [contract_type |-> f.contract_type,
     company_name |-> f.company_name,
     company_reg |-> f.company_reg,
     company_address |-> f.company_address,
     company_rep |-> f.company_rep,
     company_position |-> f.company_position,
     other_name |-> f.other_name,
     other_id |-> IF UsesOtherId(f) THEN f.other_id ELSE NoneValue,
     other_address |-> f.other_address,
     confidential_info |-> f.confidential_info,
     additional_info |-> f.additional_info,
     duration_years |-> f.duration_years,
     geographic_scope |-> IF UsesGeographicScope(f) THEN f.geographic_scope
                          ELSE "South Africa only",
     liquidated_damages |-> f.liquidated_damages,
     damages_amount |-> IF UsesDamagesAmount(f) THEN f.damages_amount ELSE 0,
     interdict_relief |-> f.interdict_relief,
     involves_personal_data |-> f.involves_personal_data,
     data_types |-> IF f.involves_personal_data THEN f.data_types ELSE <<>>,
     job_title |-> IF f.contract_type = EmployeeNDA THEN f.job_title ELSE NoneValue,
     employment_date |-> IF f.contract_type = EmployeeNDA THEN f.employment_date ELSE NoDate,
     post_employment |-> IF f.contract_type # MutualNDA THEN f.post_employment ELSE TRUE]

\* a dispatch with the PDF and Word branches exchanged
DispatchExchanged(format, pdf_available, docx_available) ==
    IF format = TextFormat THEN "generate_nda_text"
    ELSE IF format = PdfFormat /\ docx_available THEN "generate_nda_docx"
    ELSE IF format = WordFormat /\ pdf_available THEN "generate_nda_pdf"
    ELSE "none"

\* lines 275, 287, 299: the branch of the dispatch that is taken
Dispatch(format, pdf_available, docx_available) ==
    IF format = TextFormat THEN "generate_nda_text"
    ELSE IF format = PdfFormat /\ pdf_available THEN "generate_nda_pdf"
    ELSE IF format = WordFormat /\ docx_available THEN "generate_nda_docx"
    ELSE "none"

\* a renderer that appends to what the last run produced
\* a dispatch whose renderers close with a liquidated-damages clause
RenderWithDamages(renderer, cd, now) ==
    (CASE renderer = "generate_nda_text" -> generate_nda_text(cd, now)
       [] renderer = "generate_nda_pdf" -> generate_nda_pdf(cd, now)
       [] renderer = "generate_nda_docx" -> generate_nda_docx(cd, now))
    \o (IF cd.liquidated_damages
        THEN <<Item("clause", <<"Liquidated damages: R", ToString(cd.damages_amount),
                                " (", amount_in_words(cd.damages_amount), " Rand)">>)>>
        ELSE <<>>)

RenderAccumulating(renderer, cd, now) ==
    output \o (CASE renderer = "generate_nda_text" -> generate_nda_text(cd, now)
                 [] renderer = "generate_nda_pdf" -> generate_nda_pdf(cd, now)
                 [] renderer = "generate_nda_docx" -> generate_nda_docx(cd, now))

Render(renderer, cd, now) ==
    CASE renderer = "generate_nda_text" -> generate_nda_text(cd, now)
      [] renderer = "generate_nda_pdf" -> generate_nda_pdf(cd, now)
      [] renderer = "generate_nda_docx" -> generate_nda_docx(cd, now)

DownloadLabel(renderer) ==
    CASE renderer = "generate_nda_text" -> "Download as Text"
      [] renderer = "generate_nda_pdf" -> "Download as PDF"
      [] renderer = "generate_nda_docx" -> "Download as Word Document"

\* a run of main() in which no button was pressed: the page shows the form
ShowForm(pdf_available, docx_available) ==
    /\ warnings' = Warnings(pdf_available, docx_available)
    /\ export_formats' = ExportFormats(pdf_available, docx_available)
    /\ button' = FALSE
    /\ messages' = <<>>
    /\ contract_data' = <<>>
    /\ invoked' = <<>>
    /\ output' = <<>>
    /\ download' = ""
    /\ render_date' = NoDate
    /\ previous_date' = render_date

(***************************************************************************)
(* The state machine                                                       *)
(***************************************************************************)
Init ==
    /\ pc = "start"
    /\ reportlab_installed \in BOOLEAN
    /\ docx_installed \in BOOLEAN
    /\ PDF_AVAILABLE = FALSE
    /\ DOCX_AVAILABLE = FALSE
    /\ form \in Forms
    /\ export_format = TextFormat
    /\ warnings = {}
    /\ export_formats = <<>>
    /\ messages = <<>>
    /\ contract_data = <<>>
    /\ invoked = <<>>
    /\ output = <<>>
    /\ download = ""
    /\ button = FALSE
    /\ render_date = NoDate
    /\ previous_date = NoDate
    /\ exception = ""
    /\ amount = 0
    /\ words = ""

\* lines 1-31 and 723: the imports, then the first run of main()
Load ==
    /\ pc = "start"
    /\ IF ~docx_installed
       THEN \* line 6 raises ImportError before any flag is set
            /\ pc' = "crashed"
            /\ exception' = "ImportError"
            /\ UNCHANGED <<PDF_AVAILABLE, DOCX_AVAILABLE, warnings, export_formats,
                           messages, contract_data, invoked, output, download, button,
                           render_date, previous_date>>
       ELSE /\ pc' = "ready"
            /\ PDF_AVAILABLE' = reportlab_installed
            /\ DOCX_AVAILABLE' = docx_installed
            /\ ShowForm(reportlab_installed, docx_installed)
            /\ UNCHANGED exception
    /\ UNCHANGED <<reportlab_installed, docx_installed, form, export_format, amount, words>>

\* line 150: the selectbox returns one of the options it was given
SelectFormat(f) ==
    /\ pc = "ready"
    /\ f \in Range(export_formats)
    /\ f # export_format
    /\ export_format' = f
    /\ ShowForm(PDF_AVAILABLE, DOCX_AVAILABLE)
    /\ UNCHANGED <<pc, reportlab_installed, docx_installed, PDF_AVAILABLE, DOCX_AVAILABLE,
                   form, exception, amount, words>>

\* lines 246-311: a run of main() in which the button was pressed
Submit(now) ==
    /\ pc = "ready"
    /\ warnings' = Warnings(PDF_AVAILABLE, DOCX_AVAILABLE)
    /\ export_formats' = ExportFormats(PDF_AVAILABLE, DOCX_AVAILABLE)
    /\ button' = TRUE
    /\ previous_date' = render_date
    /\ IF validate_inputs(form.company_name, form.company_reg, form.company_address,
                          form.other_name)
       THEN IF ~(BuildReads(form) \subseteq Collected(form))
            THEN \* an unbound local is read: NameError ends the run
                 /\ pc' = "crashed"
                 /\ exception' = "NameError"
                 /\ messages' = <<>>
                 /\ contract_data' = <<>>
                 /\ invoked' = <<>>
                 /\ output' = <<>>
                 /\ download' = ""
                 /\ render_date' = NoDate
            ELSE LET cd == ContractData(form)
                     renderer == Dispatch(export_format, PDF_AVAILABLE, DOCX_AVAILABLE)
                 IN  /\ contract_data' = <<cd>>
                     /\ IF renderer = "none"
                        THEN /\ messages' = <<SuccessMessage>>
                             /\ invoked' = <<>>
                             /\ output' = <<>>
                             /\ download' = ""
                             /\ render_date' = NoDate
                        ELSE /\ invoked' = <<renderer>>
                             /\ render_date' = now
                             /\ output' = Render(renderer, cd, now)
                             /\ download' = DownloadLabel(renderer)
                             /\ messages' =
                                    <<SuccessMessage>>
                                    \o (IF renderer = "generate_nda_pdf"
                                        THEN <<PdfSuccessMessage>>
                                        ELSE IF renderer = "generate_nda_docx"
                                        THEN <<DocxSuccessMessage>>
                                        ELSE <<>>)
                     /\ UNCHANGED <<pc, exception>>
       ELSE /\ messages' = <<ValidationErrorMessage>>
            /\ contract_data' = <<>>
            /\ invoked' = <<>>
            /\ output' = <<>>
            /\ download' = ""
            /\ render_date' = NoDate
            /\ UNCHANGED <<pc, exception>>
    /\ UNCHANGED <<reportlab_installed, docx_installed, PDF_AVAILABLE, DOCX_AVAILABLE,
                   form, export_format, amount, words>>

Next ==
    \/ Load
    \/ \E f \in {TextFormat, PdfFormat, WordFormat} : SelectFormat(f)
    \/ \E now \in Dates : Submit(now)

Spec == Init /\ [][Next]_vars

(***************************************************************************)
(* amount_in_words on its own: no run of main() calls it                   *)
(***************************************************************************)
\* line 232: the step of the amount widget
AmountStep == 5000

Amounts ==
    {k * AmountStep : k \in 0..MaxAmountSteps}
    \cup {1, 999, 1000, 1001, 2500, 9999, 10001, 99999, 100001, 100999, 101000,
          123456, 200500, 900999, 999999,
          1000000, 1000001, 1000999, 1001000, 1234567, 1500000, 2000000}

InitAmount ==
    /\ pc = "start"
    /\ reportlab_installed = TRUE
    /\ docx_installed = TRUE
    /\ PDF_AVAILABLE = FALSE
    /\ DOCX_AVAILABLE = FALSE
    /\ form = DefaultForm
    /\ export_format = TextFormat
    /\ warnings = {}
    /\ export_formats = <<>>
    /\ messages = <<>>
    /\ contract_data = <<>>
    /\ invoked = <<>>
    /\ output = <<>>
    /\ download = ""
    /\ button = FALSE
    /\ render_date = NoDate
    /\ previous_date = NoDate
    /\ exception = ""
    /\ amount \in Amounts
    /\ words = ""

Convert ==
    /\ words = ""
    /\ words' = amount_in_words(amount)
    /\ UNCHANGED <<pc, reportlab_installed, docx_installed, PDF_AVAILABLE, DOCX_AVAILABLE,
                   form, export_format, warnings, export_formats, messages,
                   contract_data, invoked, output, download, button, render_date,
                   previous_date, exception, amount>>

NextAmount == Convert

SpecAmount == InitAmount /\ [][NextAmount]_vars

(***************************************************************************)
(* Properties                                                              *)
(***************************************************************************)
RequiredFields == {"company_name", "company_reg", "company_address", "other_name"}

\* the required fields the form leaves empty
MissingRequired(f) == {name \in RequiredFields : f[name] = ""}

Rendered == invoked # <<>>

\* C1: on a submission with an empty required field no record is built, no
\* renderer is called and an error is shown; a record or a render exists
\* only when the four fields passed validation in that run
C1_ValidationGatesRender ==
    button =>
        /\ MissingRequired(form) # {} =>
               /\ contract_data = <<>>
               /\ invoked = <<>>
               /\ output = <<>>
               /\ messages = <<ValidationErrorMessage>>
        /\ (contract_data # <<>> \/ invoked # <<>>) => MissingRequired(form) = {}

C1_Witness ==
    /\ button
    /\ Cardinality(MissingRequired(form)) = 1
    /\ messages = <<ValidationErrorMessage>>
    /\ contract_data = <<>>

CounterpartyIsCompany(f) == f.contract_type = MutualNDA /\ f.other_party_type = "Company"

\* C3: with the four required fields filled in, on every path of the form,
\* the record is built without reading an unbound local, and other_id is
\* None for a company, damages_amount is 0 without the liquidated-damages
\* flag, and geographic_scope is "South Africa only" for a mutual agreement
C3_BuildSucceeds ==
    (button /\ MissingRequired(form) = {}) =>
        /\ exception = ""
        /\ contract_data # <<>>
        /\ LET cd == contract_data[1]
           IN  /\ CounterpartyIsCompany(form) => cd.other_id = NoneValue
               /\ ~form.liquidated_damages => cd.damages_amount = 0
               /\ form.contract_type = MutualNDA => cd.geographic_scope = "South Africa only"

C3_Witness ==
    /\ button
    /\ CounterpartyIsCompany(form)
    /\ form.involves_personal_data
    /\ ~form.liquidated_damages
    /\ contract_data # <<>>
    /\ contract_data[1].other_id = NoneValue
    /\ contract_data[1].damages_amount = 0

\* C4: for the record rendered, the three renderers give the same content
C4_SameContentInAllFormats ==
    Rendered =>
        LET cd == contract_data[1]
        IN  /\ Content(generate_nda_text(cd, render_date))
                   = Content(generate_nda_pdf(cd, render_date))
            /\ Content(generate_nda_pdf(cd, render_date))
                   = Content(generate_nda_docx(cd, render_date))

\* C6: whichever library is missing, the program loads, offers the text
\* format, offers a format exactly when its flag is true, and renders text
C6_FormatsIndependent ==
    pc # "start" =>
        /\ pc = "ready"
        /\ TextFormat \in Range(export_formats)
        /\ PdfFormat \in Range(export_formats) <=> PDF_AVAILABLE
        /\ WordFormat \in Range(export_formats) <=> DOCX_AVAILABLE
        /\ (button /\ MissingRequired(form) = {} /\ export_format = TextFormat) =>
               /\ invoked = <<"generate_nda_text">>
               /\ output = generate_nda_text(contract_data[1], render_date)

IdValues == {"", NoneValue, "None", "8501015800083"}

\* the items of an output that carry an ID number in the preamble / on a
\* line of their own
PreambleIdItems(out) ==
    {i \in 1..Len(out) :
        \E j \in 1..Len(out[i].parts) :
            \E id \in IdValues : out[i].parts[j] = ", ID Number: " \o id}

SignatureIdItems(out) ==
    {i \in 1..Len(out) :
        \E j \in 1..Len(out[i].parts) :
            \E id \in IdValues : out[i].parts[j] = "ID Number: " \o id}

\* C7: in the output of whichever renderer ran, the preamble and the
\* recipient's signature block each carry the ID number exactly when
\* other_id is non-empty, and then it is that ID; a mutual agreement with a
\* company shows none
C7_IdLineIffId ==
    Rendered =>
        LET cd == contract_data[1]
        IN  /\ Cardinality(PreambleIdItems(output)) = (IF Truthy(cd.other_id) THEN 1 ELSE 0)
            /\ Cardinality(SignatureIdItems(output)) = (IF Truthy(cd.other_id) THEN 1 ELSE 0)
            /\ Truthy(cd.other_id) =>
                   /\ Contains(output, ", ID Number: " \o cd.other_id)
                   /\ Contains(output, "ID Number: " \o cd.other_id)
            /\ CounterpartyIsCompany(form) =>
                   PreambleIdItems(output) \cup SignatureIdItems(output) = {}

C7_Witness ==
    /\ invoked = <<"generate_nda_pdf">>
    /\ contract_data[1].other_id = "8501015800083"
    /\ Cardinality(PreambleIdItems(output)) = 1
    /\ Cardinality(SignatureIdItems(output)) = 1

DurationPhrase(duration_years) ==
    IF duration_years = Indefinite
    THEN "indefinitely"
    ELSE "for a period of " \o ToString(duration_years) \o " years"

\* C9: the output of whichever renderer ran carries the duration phrasing
\* of the record
C9_DurationPhraseRendered ==
    Rendered =>
        \/ Contains(output, DurationPhrase(contract_data[1].duration_years))
        \/ Contains(output, DurationClause(contract_data[1]))

C8_ReferenceAmounts ==
    words # "" =>
        /\ amount = 0 => words = "Zero"
        /\ amount = 999 => words = "999"
        /\ amount = 50000 => words = "50 Thousand"
        /\ amount = 100000 => words = "100 Thousand"
        /\ amount = 1000000 => words = "1 Million"
        /\ amount = 1500000 => words = "1 Million 500 Thousand"

\* C8, amended: the six reference amounts, 100000 giving "1 Hundred Thousand"
C8_ReferenceAmountsAmended ==
    words # "" =>
        /\ amount = 0 => words = "Zero"
        /\ amount = 999 => words = "999"
        /\ amount = 50000 => words = "50 Thousand"
        /\ amount = 100000 => words = "1 Hundred Thousand"
        /\ amount = 1000000 => words = "1 Million"
        /\ amount = 1500000 => words = "1 Million 500 Thousand"

C8_Witness == amount = 100000 /\ words = "1 Hundred Thousand"

\* C11: in the output of whichever renderer ran, the second recital reads
\* "is employed by" ... "employment" for an employee and "will be engaged
\* by" ... "the engagement" otherwise, and never both
C11_RecitalKeyedOnType ==
    Rendered =>
        LET cd == contract_data[1]
            employed == Contains(output, "is employed by")
            employment == Contains(output, "employment")
            engaged == Contains(output, "will be engaged by")
            engagement == Contains(output, "the engagement")
        IN  /\ cd.contract_type = EmployeeNDA =>
                   employed /\ employment /\ ~engaged /\ ~engagement
            /\ cd.contract_type # EmployeeNDA =>
                   engaged /\ engagement /\ ~employed /\ ~employment
            /\ employed # engaged

C11_Witness ==
    /\ invoked = <<"generate_nda_docx">>
    /\ contract_data[1].contract_type = EmployeeNDA
    /\ Contains(output, "is employed by")
    /\ ~Contains(output, "will be engaged by")

\* a conversion has been applied to the amount
Converted == words # ""

\* C12: every amount from 100,000 to 999,999 converts to "<a div 100000>
\* Hundred Thousand" when it is an exact multiple of 100,000 and to
\* "<a div 1000> Thousand" otherwise
C12_HundredThousands ==
    (Converted /\ amount >= 100000 /\ amount <= 999999) =>
        words = IF amount % 100000 = 0
                THEN ToString(amount \div 100000) \o " Hundred Thousand"
                ELSE ToString(amount \div 1000) \o " Thousand"

\* C12 (amended): every amount from 100,000 to 999,999 converts to
\* "<a div 100000> Hundred Thousand" when it lies less than 1,000 above a
\* multiple of 100,000 and to "<a div 1000> Thousand" otherwise
C12_HundredThousandsAmended ==
    (Converted /\ amount >= 100000 /\ amount <= 999999) =>
        words = IF amount % 100000 < 1000
                THEN ToString(amount \div 100000) \o " Hundred Thousand"
                ELSE ToString(amount \div 1000) \o " Thousand"

C12_Witness == amount = 100001 /\ words = "1 Hundred Thousand"

\* C13: below 1,000 a positive amount converts to its digits; from 1,000 to
\* 9,999 to "<a div 1000> Thousand" followed by the remainder only when it
\* is non-zero; from 10,000 to 99,999 to "<a div 1000> Thousand"; from
\* 1,000,000 on to "<m> Million", "<m> Million <r>" or "<m> Million
\* <r div 1000> Thousand" as the remainder r is zero, below 1,000 or not
C13_OtherRanges ==
    Converted =>
        LET a == amount
            m == a \div 1000000
            r == a % 1000000
        IN  /\ (0 < a /\ a < 1000) => words = ToString(a)
            /\ (1000 <= a /\ a <= 9999 /\ a % 1000 = 0) =>
                   words = ToString(a \div 1000) \o " Thousand"
            /\ (1000 <= a /\ a <= 9999 /\ a % 1000 # 0) =>
                   words = ToString(a \div 1000) \o " Thousand " \o ToString(a % 1000)
            /\ (10000 <= a /\ a <= 99999) =>
                   words = ToString(a \div 1000) \o " Thousand"
            /\ (a >= 1000000 /\ r = 0) => words = ToString(m) \o " Million"
            /\ (a >= 1000000 /\ 0 < r /\ r < 1000) =>
                   words = ToString(m) \o " Million " \o ToString(r)
            /\ (a >= 1000000 /\ r >= 1000) =>
                   words = ToString(m) \o " Million " \o ToString(r \div 1000) \o " Thousand"

C13_Witness == amount = 1000999 /\ words = "1 Million 999"

\* the text renderer, the one that computes duration_clause, has run
TextRendered == Rendered /\ invoked = <<"generate_nda_text">>

\* C14: the context suffix of the survival clause is selected by the
\* contract type alone: termination of employment for every employee
\* record, completion or termination of the contractual relationship for
\* every contractor record, the date of this Agreement for every mutual one
C14_SuffixByContractType ==
    TextRendered =>
        LET cd == contract_data[1]
        IN  DurationSuffix(cd) =
                CASE cd.contract_type = EmployeeNDA ->
                         " from the termination of employment"
                  [] cd.contract_type = ContractorNDA ->
                         " from the completion or termination of the contractual relationship"
                  [] cd.contract_type = MutualNDA ->
                         " from the date of this Agreement"

\* C14 (amended): the suffix is selected by the contract type and the
\* post_employment flag: termination of employment for an employee record
\* with the flag set, the date of this Agreement for an employee record
\* with the flag unset and for every mutual record, completion or
\* termination of the contractual relationship for every contractor record
C14_SuffixByTypeAndFlag ==
    TextRendered =>
        LET cd == contract_data[1]
        IN  DurationSuffix(cd) =
                CASE cd.contract_type = EmployeeNDA /\ cd.post_employment ->
                         " from the termination of employment"
                  [] cd.contract_type = EmployeeNDA /\ ~cd.post_employment ->
                         " from the date of this Agreement"
                  [] cd.contract_type = ContractorNDA ->
                         " from the completion or termination of the contractual relationship"
                  [] cd.contract_type = MutualNDA ->
                         " from the date of this Agreement"

C14_Witness ==
    /\ TextRendered
    /\ contract_data[1].contract_type = EmployeeNDA
    /\ ~contract_data[1].post_employment
    /\ DurationSuffix(contract_data[1]) = " from the date of this Agreement"

\* where the first item reading text stands in an output, 0 when none does
Position(out, text) ==
    LET at == {i \in 1..Len(out) : ItemText(out[i]) = text}
    IN  IF at = {} THEN 0 ELSE CHOOSE i \in at : \A j \in at : i <= j

\* the texts standing between clause 1.1 and clause 1.2
ListTexts(out) ==
    Content(SubSeq(out, Position(out, ClauseOneOne) + 1, Position(out, ClauseOneTwo) - 1))

\* C15: in the output of whichever renderer ran, the list of confidential
\* information has one item per selected category, numbered 1..N in the
\* order selected, then the additional text as item N+1 exactly when it is
\* not empty, each item reading "<number>. <text>;"; it is empty when
\* nothing was selected and nothing added
C15_ListNumbering ==
    Rendered =>
        LET cd == contract_data[1]
            n == Len(cd.confidential_info)
            extra == IF cd.additional_info = "" THEN 0 ELSE 1
            list == ListTexts(output)
        IN  /\ Position(output, ClauseOneOne) > 0
            /\ Position(output, ClauseOneTwo) > Position(output, ClauseOneOne)
            /\ Len(list) = n + extra
            /\ \A i \in 1..n :
                   list[i] = ToString(i) \o ". " \o cd.confidential_info[i] \o ";"
            /\ extra = 1 =>
                   list[n + 1] = ToString(n + 1) \o ". " \o cd.additional_info \o ";"

C15_Witness ==
    /\ Rendered
    /\ invoked = <<"generate_nda_pdf">>
    /\ contract_data[1].confidential_info = <<CategoryCatalogue[2], CategoryCatalogue[1]>>
    /\ contract_data[1].additional_info = "Prototype designs"
    /\ ListTexts(output) = << "1. Business strategies and plans;",
                              "2. Technical information and trade secrets;",
                              "3. Prototype designs;" >>

\* every employment detail a preamble could carry
EmploymentDetails ==
    {", employed as " \o title \o " from " \o Strftime(date) :
        title \in JobTitles \cup {NoneValue}, date \in EmploymentDates}

\* C16: a constructed record carries a job title and an employment date
\* exactly when its contract type is Employee, and the output of whichever
\* renderer ran carries ", employed as <job_title> from <employment_date>",
\* with the record's own values, exactly when the contract type is Employee
C16_EmploymentDetailIffEmployee ==
    Len(contract_data) = 1 =>
        LET cd == contract_data[1]
            employee == cd.contract_type = EmployeeNDA
        IN  /\ (cd.job_title # NoneValue) <=> employee
            /\ (cd.employment_date # NoDate) <=> employee
            /\ employee => cd.job_title = form.job_title
                           /\ cd.employment_date = form.employment_date
            /\ Rendered =>
                   /\ employee =>
                          \A detail \in EmploymentDetails :
                              Contains(output, detail) <=>
                                  detail = ", employed as " \o cd.job_title \o " from "
                                               \o Strftime(cd.employment_date)
                   /\ ~employee =>
                          \A detail \in EmploymentDetails : ~Contains(output, detail)

C16_Witness ==
    /\ Rendered
    /\ invoked = <<"generate_nda_text">>
    /\ contract_data[1].contract_type = EmployeeNDA
    /\ contract_data[1].job_title = "Software Developer"
    /\ Contains(output, ", employed as Software Developer from 01 February 2024")

\* the records that differ from cd in nothing but the remedy, geographic
\* scope and personal-data fields
DeadInputVariants(cd) ==
    {[cd EXCEPT !.liquidated_damages = r.liquidated_damages,
                !.damages_amount = r.damages_amount,
                !.interdict_relief = r.interdict_relief,
                !.involves_personal_data = r.involves_personal_data,
                !.data_types = r.data_types,
                !.geographic_scope = g] :
        r \in RemedyParts, g \in GeographicScopes}

\* C17: the renderer that ran gives the output it gave for every record
\* differing from the rendered one only in liquidated_damages,
\* damages_amount, interdict_relief, geographic_scope,
\* involves_personal_data or data_types, and no session converts an amount
\* to words
C17_DeadInputs ==
    /\ words = ""
    /\ Rendered =>
           \A other \in DeadInputVariants(contract_data[1]) :
               Render(invoked[1], other, render_date) = output

C17_Witness ==
    /\ Rendered
    /\ invoked = <<"generate_nda_pdf">>
    /\ contract_data[1].liquidated_damages
    /\ contract_data[1].damages_amount = 55000
    /\ contract_data[1].geographic_scope = "Global"
    /\ contract_data[1].involves_personal_data
    /\ contract_data[1].data_types # <<>>
    /\ DefaultRemedies \in RemedyParts
    /\ Render("generate_nda_pdf",
              [contract_data[1] EXCEPT !.liquidated_damages = FALSE, !.damages_amount = 0,
                                       !.involves_personal_data = FALSE, !.data_types = <<>>,
                                       !.geographic_scope = "South Africa only"],
              render_date) = output

\* the selected format is one the installed libraries can produce
FormatAvailable ==
    \/ export_format = TextFormat
    \/ export_format = PdfFormat /\ PDF_AVAILABLE
    \/ export_format = WordFormat /\ DOCX_AVAILABLE

\* C18: a submission that passes validation with an available format
\* selected builds one record and calls one renderer once, the one of the
\* selected format, and after the call the record still is the one built
\* from the form
C18_OneRecordOneRenderer ==
    (button /\ MissingRequired(form) = {} /\ FormatAvailable) =>
        /\ Len(contract_data) = 1
        /\ Len(invoked) = 1
        /\ invoked[1] = CASE export_format = TextFormat -> "generate_nda_text"
                          [] export_format = PdfFormat -> "generate_nda_pdf"
                          [] export_format = WordFormat -> "generate_nda_docx"
        /\ contract_data[1] = ContractData(form)
        /\ output # <<>>

C18_Witness ==
    /\ button
    /\ MissingRequired(form) = {}
    /\ export_format = WordFormat
    /\ DOCX_AVAILABLE
    /\ invoked = <<"generate_nda_docx">>
    /\ Len(contract_data) = 1

\* where the first item carrying the fragment stands in an output, 0 when
\* none does
PositionOfFragment(out, fragment) ==
    LET at == {i \in 1..Len(out) : \E j \in 1..Len(out[i].parts) : out[i].parts[j] = fragment}
    IN  IF at = {} THEN 0 ELSE CHOOSE i \in at : \A j \in at : i <= j

\* the places of the sections of the template in an output, in template
\* order: preamble, recitals, heading 1, clause 1.1, clause 1.2, the last
\* exception, heading 2, clause 2.1, heading 3, clause 3.1, signature block,
\* legal disclaimer
SectionPlaces(out) ==
    << Position(out, BetweenText),
       Position(out, RecitalsHeading),
       Position(out, SectionOneHeading),
       Position(out, ClauseOneOne),
       Position(out, ClauseOneTwo),
       PositionOfFragment(out, Exceptions[Len(Exceptions)]),
       Position(out, SectionTwoHeading),
       IF Position(out, ClauseTwoOneText) > 0
       THEN Position(out, ClauseTwoOneText)
       ELSE Position(out, ClauseTwoOneDocument),
       Position(out, SectionThreeHeading),
       Position(out, ClauseThreeOne),
       Position(out, InWitnessText),
       PositionOfFragment(out, DisclaimerBody) >>

\* C19: in the output of whichever renderer ran every section of the
\* template is present and the sections stand in template order, each
\* clause after its own heading and before the next heading
C19_SectionsInTemplateOrder ==
    Rendered =>
        LET places == SectionPlaces(output)
        IN  /\ \A i \in 1..Len(places) : places[i] > 0
            /\ \A i \in 1..(Len(places) - 1) : places[i] < places[i + 1]

====
